---- MODULE Spec2Model ----
(***************************************************************************)
(* Model of music.generate (src/src/music_mcp/server.py, generate_music):  *)
(* one streaming generation request against the Lyria RealTime backend,    *)
(* the WAV encoder _write_wav and the MinIO publisher _upload_to_minio.    *)
(*                                                                         *)
(* The coroutine is cut at its await points; the code between two awaits   *)
(* is one action.  The backend, the wall clock, the file system and the    *)
(* object store are the environment: every await on them may succeed or    *)
(* raise, and the stream delivers messages in any order.                   *)
(*                                                                         *)
(* The variables hold the request that is running; a second request that   *)
(* runs as another task of the same event loop is kept in peer while it is *)
(* suspended, and Switch hands the processor from one to the other.        *)
(*                                                                         *)
(* Time is counted in whole seconds.  A byte sequence is represented by    *)
(* the sequence of its segments: segment [task, msg, chunk, len] stands for *)
(* the first len decoded bytes of chunk number chunk of the backend message *)
(* number msg of the session of request task, so that two sequences are    *)
(* equal exactly when they hold the same bytes in the same order.          *)
(***************************************************************************)
EXTENDS Integers, Sequences, FiniteSets

\* ------------------------------------------------------------------ bounds
MaxMessages == 2      \* backend messages consumed by one request
MaxChunks == 2        \* audio chunks carried by one backend message
MaxStartDelay == 1    \* seconds that may pass before the stream is entered
NearDeadline == 1     \* seconds before the deadline that pass one by one

\* ------------------------------------------------------- program constants
SAMPLE_RATE == 48000
CHANNELS == 2
SAMPLE_WIDTH == 2
BYTES_PER_SECOND == SAMPLE_RATE * CHANNELS * SAMPLE_WIDTH

MIN_DURATION == 1
MAX_DURATION == 120
GRACE_SECONDS == 5
WAV_HEADER_BYTES == 44
BYTES_PER_KB == 1024
PROMPT_WEIGHT == 1
MIN_BPM == 60
MAX_BPM == 200

MINIO_ENDPOINT == "minio.nblotti.org"
MINIO_BUCKET == "music-mcp"
MINIO_SECURE == TRUE

\* ------------------------------------------------------------------ inputs
None == <<>>                          \* an optional value is <<>> or <<v>>
Durations == {0, 2, 121}
Bpms == {None, <<30>>}
Temperatures == {10}                  \* tenths: 10 is the default 1.0
FileNames == {"music_0a.wav", "music_0b.wav"}

\* chunk.data as delivered: raw bytes, or a base64 string of len characters
\* of which pad are trailing '=' characters
ChunkData ==
    { [enc |-> "bytes", len |-> 0, pad |-> 0],
      [enc |-> "bytes", len |-> 3, pad |-> 0],
      [enc |-> "str", len |-> 256000, pad |-> 0] }

RECURSIVE SeqsUpTo(_, _)
SeqsUpTo(S, n) ==
    IF n = 0 THEN {<<>>}
    ELSE LET shorter == SeqsUpTo(S, n - 1)
         IN shorter \cup { Append(s, x) : s \in {t \in shorter : Len(t) = n - 1}, x \in S }

\* LiveMusicServerMessage: filtered_prompt and server_content.audio_chunks
Messages ==
    [filtered_prompt : {FALSE}, audio_chunks : SeqsUpTo(ChunkData, MaxChunks)]
    \cup { [filtered_prompt |-> TRUE, audio_chunks |-> <<>>] }

\* ------------------------------------------------------------------- state
VARIABLES
    arg_duration, arg_bpm, arg_temperature,   \* the caller's arguments
    pc,                  \* the await point the coroutine is suspended at
    duration_seconds,    \* the clamped duration
    target_bytes,
    audio_buffer,        \* sequence of segments
    session,             \* "none", "open", "closed"
    sent,                \* control messages sent on the session, in order
    received,            \* backend messages consumed so far, in order
    now,                 \* wall clock
    timeout_state,       \* asyncio.timeout: created, entered, expired, exited
    deadline,            \* asyncio.timeout: when
    entered_at,          \* clock value when asyncio.timeout was entered
    pcm_data, filename,
    files,               \* local staging directory: file name -> content
    bucket_exists,       \* the bucket is known to exist on the MinIO server
    objects, put_calls,  \* the bucket's objects; put_object calls made
    uploaded,            \* _upload_to_minio returned a url
    result,              \* what music.generate returned or raised
    running,             \* the request whose locals the variables above hold
    peer                 \* the locals of the other request, suspended

vars == << arg_duration, arg_bpm, arg_temperature, pc, duration_seconds,
           target_bytes, audio_buffer, session, sent, received, now,
           timeout_state, deadline, entered_at, pcm_data, filename, files,
           bucket_exists, objects, put_calls, uploaded, result, running, peer >>

argVars == << arg_duration, arg_bpm, arg_temperature >>
timerVars == << timeout_state, deadline, entered_at >>
taskVars == << running, peer >>
publishVars == << pcm_data, filename, files, bucket_exists, objects, put_calls, uploaded >>

\* ----------------------------------------------------------------- helpers
Absent == [kind |-> "absent"]
NoResult == [kind |-> "none"]
NoTask == [pc |-> "absent"]

Max(a, b) == IF a >= b THEN a ELSE b
Min(a, b) == IF a <= b THEN a ELSE b

\* the clamp without its upper limit
ClampDuration_NoUpper(d) == Max(MIN_DURATION, d)

\* max(1, min(120, duration_seconds))
ClampDuration(d) == Max(MIN_DURATION, Min(MAX_DURATION, d))

\* the tempo clamp without its lower limit
ClampBpm_NoLower(b) == Min(MAX_BPM, b)

\* max(60, min(200, bpm))
ClampBpm(b) == Max(MIN_BPM, Min(MAX_BPM, b))

TargetBytes(d) == d * BYTES_PER_SECOND

\* asyncio.timeout(duration_seconds + 5)
TimeoutDelay(d) == d + GRACE_SECONDS

\* base64.b64decode of a valid base64 string: 3 bytes per 4 characters,
\* less the padding
B64DecodedLen(c) == 3 * (c.len \div 4) - c.pad

\* the bytes one chunk contributes: decoded when delivered as a string
DataLen(c) == IF c.enc = "str" THEN B64DecodedLen(c) ELSE c.len

RECURSIVE ByteLen(_)
ByteLen(buf) ==
    IF buf = <<>> THEN 0 ELSE Head(buf).len + ByteLen(Tail(buf))

\* the target test with > for >=
TargetReached_Strict(buf, target) == ByteLen(buf) > target

\* the target test counting 16-bit samples instead of bytes
TargetReached_Samples(buf, target) == ByteLen(buf) \div SAMPLE_WIDTH >= target

\* len(audio_buffer) >= target_bytes
TargetReached(buf, target) == ByteLen(buf) >= target

\* not audio_buffer
BufferEmpty(buf) == ByteLen(buf) = 0

\* the data put in front of the buffer instead of behind it
Extend_Prepend(buf, m, j, n) ==
    IF n = 0 THEN buf
    ELSE << [task |-> running, msg |-> m, chunk |-> j, len |-> n] >> \o buf

\* bytearray.extend(data)
Extend(buf, m, j, n) ==
    IF n = 0 THEN buf
    ELSE Append(buf, [task |-> running, msg |-> m, chunk |-> j, len |-> n])

\* the for loop over message.server_content.audio_chunks
RECURSIVE ExtendAll(_, _, _, _)
ExtendAll(buf, m, chunks, j) ==
    IF j > Len(chunks) THEN buf
    ELSE ExtendAll(Extend(buf, m, j, DataLen(chunks[j])), m, chunks, j + 1)

\* the slice taken one byte short: audio_buffer[:target_bytes - 1]
RECURSIVE Slice_Take(_, _)
Slice_Take(buf, n) ==
    IF buf = <<>> \/ n <= 0 THEN <<>>
    ELSE IF Head(buf).len <= n
         THEN <<Head(buf)>> \o Slice_Take(Tail(buf), n - Head(buf).len)
         ELSE << [Head(buf) EXCEPT !.len = n] >>

Slice_OffByOne(buf, n) == Slice_Take(buf, n - 1)

\* audio_buffer[:target_bytes]
RECURSIVE Slice(_, _)
Slice(buf, n) ==
    IF buf = <<>> \/ n <= 0 THEN <<>>
    ELSE IF Head(buf).len <= n
         THEN <<Head(buf)>> \o Slice(Tail(buf), n - Head(buf).len)
         ELSE << [Head(buf) EXCEPT !.len = n] >>

\* round to the nearest integer, ties to even: what '%.0f' and '%.1f' do with
\* a value that a double holds exactly (the byte counts of ChunkData give no
\* tie that a double holds inexactly)
RoundHalfEven(num, den) ==
    LET q == num \div den
        r == num % den
    IN IF 2 * r < den THEN q
       ELSE IF 2 * r > den THEN q + 1
       ELSE IF q % 2 = 0 THEN q ELSE q + 1

\* f"{actual_duration:.1f}" with actual_duration = len(pcm_data) / BYTES_PER_SECOND,
\* in tenths of a second
DurationText(nbytes) == RoundHalfEven(nbytes * 10, BYTES_PER_SECOND)

\* f"{size_kb:.0f}" with size_kb = (len(pcm_data) + 44) / 1024
SizeText(nbytes) == RoundHalfEven(nbytes + WAV_HEADER_BYTES, BYTES_PER_KB)

FormatText == [khz |-> SAMPLE_RATE \div 1000, layout |-> "stereo", bits |-> 16]

FILTERED_MSG ==
    [kind |-> "error",
     text |-> "Error: your prompt was blocked by the safety filter."]

EMPTY_MSG ==
    [kind |-> "error",
     text |-> "Error: no audio was generated. The prompt may have been silently filtered."]

UPLOAD_WARNING == "Warning: MinIO upload failed; file is only available locally."

Raised(where) == [kind |-> "exception", at |-> where]

Url(name) ==
    [scheme |-> IF MINIO_SECURE THEN "https" ELSE "http",
     endpoint |-> MINIO_ENDPOINT, bucket |-> MINIO_BUCKET, object |-> name]

DownloadText(url, nbytes) ==
    [kind |-> "download", url |-> url, duration |-> DurationText(nbytes),
     format |-> FormatText, size_kb |-> SizeText(nbytes)]

SavedText(path, nbytes) ==
    [kind |-> "saved", path |-> path, duration |-> DurationText(nbytes),
     format |-> FormatText, size_kb |-> SizeText(nbytes),
     warning |-> UPLOAD_WARNING]

\* _write_wav writing whole 4-byte frames only
WavFile_WholeFrames(data) ==
    [kind |-> "wav", nchannels |-> CHANNELS, sampwidth |-> SAMPLE_WIDTH,
     framerate |-> SAMPLE_RATE,
     frames |-> Slice(data, ByteLen(data) - (ByteLen(data) % (CHANNELS * SAMPLE_WIDTH)))]

\* _write_wav: the header fields wave.open is given, and the frames written
WavFile(data) ==
    [kind |-> "wav", nchannels |-> CHANNELS, sampwidth |-> SAMPLE_WIDTH,
     framerate |-> SAMPLE_RATE, frames |-> data]

\* config_kwargs of LiveMusicGenerationConfig
ConfigKwargs(bpm, temperature) ==
    IF bpm = None
    THEN [temperature |-> temperature]
    ELSE [temperature |-> temperature, bpm |-> ClampBpm(bpm[1])]

\* ---------------------------------------------------------------- initial
InitRequest(Ds, Bs, Ts) ==
    /\ arg_duration \in Ds
    /\ arg_bpm \in Bs
    /\ arg_temperature \in Ts
    /\ pc = "idle"
    /\ duration_seconds = 0
    /\ target_bytes = 0
    /\ audio_buffer = <<>>
    /\ session = "none"
    /\ sent = <<>>
    /\ received = <<>>
    /\ now = 0
    /\ timeout_state = "created"
    /\ deadline = 0
    /\ entered_at = 0
    /\ pcm_data = <<>>
    /\ filename = ""
    /\ files = [n \in FileNames |-> Absent]
    /\ bucket_exists = FALSE
    /\ objects = [n \in FileNames |-> Absent]
    /\ put_calls = 0
    /\ uploaded = FALSE
    /\ result = NoResult
    /\ running = 1

\* one request, no other task
InitOver(Ds, Bs, Ts) == InitRequest(Ds, Bs, Ts) /\ peer = NoTask

Init == InitOver(Durations, Bpms, Temperatures)

\* the arguments that decide the generation configuration
ConfigBpms == {None, <<30>>, <<60>>, <<130>>, <<200>>, <<999>>}
ConfigTemperatures == {0, 30}
InitConfig == InitOver({2}, ConfigBpms, ConfigTemperatures)

\* ---------------------------------------------------------------- actions
\* lines 105-112: clamp the duration, create the buffer, compute the target
Begin ==
    /\ pc = "idle"
    /\ duration_seconds' = ClampDuration(arg_duration)
    /\ audio_buffer' = <<>>
    /\ target_bytes' = TargetBytes(ClampDuration(arg_duration))
    /\ pc' = "connect"
    /\ UNCHANGED << argVars, taskVars, session, sent, received, now, timerVars, publishVars, result >>

\* line 114: client.aio.live.music.connect(...).__aenter__
Connect ==
    /\ pc = "connect"
    /\ \E ok \in BOOLEAN :
        IF ok
        THEN /\ session' = "open"
             /\ pc' = "set_weighted_prompts"
             /\ result' = result
        ELSE /\ session' = session
             /\ pc' = "done"
             /\ result' = Raised("connect")
    /\ UNCHANGED << argVars, taskVars, duration_seconds, target_bytes, audio_buffer, sent,
                    received, now, timerVars, publishVars >>

\* an exception leaves the async with block: __aexit__ runs, then it propagates
Raise(where) ==
    /\ result' = Raised(where)
    /\ pc' = "aexit"

\* lines 117-119
SetWeightedPrompts ==
    /\ pc = "set_weighted_prompts"
    /\ sent' = Append(sent, [op |-> "set_weighted_prompts", weight |-> PROMPT_WEIGHT])
    /\ \E ok \in BOOLEAN :
        IF ok
        THEN pc' = "set_music_generation_config" /\ result' = result
        ELSE Raise("set_weighted_prompts")
    /\ UNCHANGED << argVars, taskVars, duration_seconds, target_bytes, audio_buffer, session,
                    received, now, timerVars, publishVars >>

\* SetMusicGenerationConfig sending the configuration a second time when the
\* first attempt fails
SetMusicGenerationConfig_Retry ==
    /\ pc = "set_music_generation_config"
    /\ sent' = Append(sent, [op |-> "set_music_generation_config",
                             config |-> ConfigKwargs(arg_bpm, arg_temperature)])
    /\ \E ok \in BOOLEAN :
        IF ok
        THEN pc' = "play" /\ result' = result
        ELSE IF Len(sent) < 2
        THEN pc' = pc /\ result' = result
        ELSE Raise("set_music_generation_config")
    /\ UNCHANGED << argVars, taskVars, duration_seconds, target_bytes, audio_buffer, session,
                    received, now, timerVars, publishVars >>

\* lines 121-127
SetMusicGenerationConfig ==
    /\ pc = "set_music_generation_config"
    /\ sent' = Append(sent, [op |-> "set_music_generation_config",
                             config |-> ConfigKwargs(arg_bpm, arg_temperature)])
    /\ \E ok \in BOOLEAN :
        IF ok
        THEN pc' = "play" /\ result' = result
        ELSE Raise("set_music_generation_config")
    /\ UNCHANGED << argVars, taskVars, duration_seconds, target_bytes, audio_buffer, session,
                    received, now, timerVars, publishVars >>

\* lines 129-133: play, then enter asyncio.timeout(duration_seconds + 5) and
\* suspend on the first message of session.receive()
Play ==
    /\ pc = "play"
    /\ sent' = Append(sent, [op |-> "play"])
    /\ \E ok \in BOOLEAN :
        IF ok
        THEN /\ pc' = "receive"
             /\ result' = result
             /\ timeout_state' = "entered"
             /\ deadline' = now + TimeoutDelay(duration_seconds)
             /\ entered_at' = now
        ELSE /\ Raise("play")
             /\ UNCHANGED timerVars
    /\ UNCHANGED << argVars, taskVars, duration_seconds, target_bytes, audio_buffer, session,
                    received, now, publishVars >>

StopSignal == [op |-> "stop"]

\* leaving the asyncio.timeout block before it expired
ExitTimeout ==
    /\ timeout_state' = "exited"
    /\ UNCHANGED << deadline, entered_at >>

\* Receive with a per-message idle timeout: every audio message re-arms the
\* countdown
Receive_IdleTimeout ==
    /\ pc = "receive"
    /\ Len(received) < MaxMessages
    /\ \E message \in Messages :
        /\ received' = Append(received, message)
        /\ IF message.filtered_prompt
           THEN /\ sent' = Append(sent, StopSignal)
                /\ pc' = "stop_filtered"
                /\ UNCHANGED << audio_buffer, timerVars >>
           ELSE IF message.audio_chunks = <<>>
           THEN UNCHANGED << audio_buffer, sent, pc, timerVars >>
           ELSE LET extended == ExtendAll(audio_buffer, Len(received) + 1,
                                          message.audio_chunks, 1)
                IN /\ audio_buffer' = extended
                   /\ IF TargetReached(extended, target_bytes)
                      THEN /\ ExitTimeout
                           /\ sent' = Append(sent, StopSignal)
                           /\ pc' = "stop"
                      ELSE /\ deadline' = now + TimeoutDelay(duration_seconds)
                           /\ UNCHANGED << sent, pc, timeout_state, entered_at >>
    /\ UNCHANGED << argVars, taskVars, duration_seconds, target_bytes, session, now,
                    publishVars, result >>

\* lines 133-151: one message of session.receive() is consumed
Receive ==
    /\ pc = "receive"
    /\ Len(received) < MaxMessages
    /\ \E message \in Messages :
        /\ received' = Append(received, message)
        /\ IF message.filtered_prompt
           THEN \* lines 134-136: session.stop() is awaited inside the timeout
                /\ sent' = Append(sent, StopSignal)
                /\ pc' = "stop_filtered"
                /\ UNCHANGED << audio_buffer, timerVars >>
           ELSE IF message.audio_chunks = <<>>
           THEN \* lines 143-144: continue
                UNCHANGED << audio_buffer, sent, pc, timerVars >>
           ELSE \* lines 145-151
                LET extended == ExtendAll(audio_buffer, Len(received) + 1,
                                          message.audio_chunks, 1)
                IN /\ audio_buffer' = extended
                   /\ IF TargetReached(extended, target_bytes)
                      THEN \* break, then line 162
                           /\ ExitTimeout
                           /\ sent' = Append(sent, StopSignal)
                           /\ pc' = "stop"
                      ELSE UNCHANGED << sent, pc, timerVars >>
    /\ UNCHANGED << argVars, taskVars, duration_seconds, target_bytes, session, now,
                    publishVars, result >>

\* EndOfStream with the stop of line 162 skipped
EndOfStream_NoStop ==
    /\ pc = "receive"
    /\ ExitTimeout
    /\ pc' = "aexit"
    /\ UNCHANGED << argVars, taskVars, duration_seconds, target_bytes, audio_buffer, session,
                    sent, received, now, publishVars, result >>

\* session.receive() is exhausted: the loop ends, then line 162
EndOfStream ==
    /\ pc = "receive"
    /\ ExitTimeout
    /\ sent' = Append(sent, StopSignal)
    /\ pc' = "stop"
    /\ UNCHANGED << argVars, taskVars, duration_seconds, target_bytes, audio_buffer, session,
                    received, now, publishVars, result >>

\* session.receive() raises (the connection broke)
ReceiveFails ==
    /\ pc = "receive"
    /\ ExitTimeout
    /\ Raise("receive")
    /\ UNCHANGED << argVars, taskVars, duration_seconds, target_bytes, audio_buffer, session,
                    sent, received, now, publishVars >>

\* lines 136-142: the stop awaited after a moderation event returns or raises
StopFilteredDone ==
    /\ pc = "stop_filtered"
    /\ ExitTimeout
    /\ \E ok \in BOOLEAN :
        IF ok
        THEN result' = FILTERED_MSG /\ pc' = "aexit"
        ELSE Raise("stop")
    /\ UNCHANGED << argVars, taskVars, duration_seconds, target_bytes, audio_buffer, session,
                    sent, received, now, publishVars >>

\* OnTimeout without the test of line 153: an empty buffer goes on to line 162
OnTimeout_NoEmptyCheck ==
    /\ pc \in {"receive", "stop_filtered"}
    /\ timeout_state = "entered"
    /\ now >= deadline
    /\ timeout_state' = "expired"
    /\ result' = result
    /\ sent' = Append(sent, StopSignal)
    /\ pc' = "stop"
    /\ UNCHANGED << argVars, taskVars, duration_seconds, target_bytes, audio_buffer, session,
                    received, now, deadline, entered_at, publishVars >>

\* OnTimeout reporting every expiry as the no-audio error
OnTimeout_AlwaysError ==
    /\ pc \in {"receive", "stop_filtered"}
    /\ timeout_state = "entered"
    /\ now >= deadline
    /\ timeout_state' = "expired"
    /\ result' = EMPTY_MSG
    /\ pc' = "aexit"
    /\ UNCHANGED << argVars, taskVars, duration_seconds, target_bytes, audio_buffer, session,
                    sent, received, now, deadline, entered_at, publishVars >>

\* lines 152-162: the deadline passes while the coroutine is suspended inside
\* the timeout block; the pending await is cancelled and TimeoutError is caught
OnTimeout ==
    /\ pc \in {"receive", "stop_filtered"}
    /\ timeout_state = "entered"
    /\ now >= deadline
    /\ timeout_state' = "expired"
    /\ IF BufferEmpty(audio_buffer)
       THEN /\ result' = EMPTY_MSG
            /\ pc' = "aexit"
            /\ sent' = sent
       ELSE /\ result' = result
            /\ sent' = Append(sent, StopSignal)
            /\ pc' = "stop"
    /\ UNCHANGED << argVars, taskVars, duration_seconds, target_bytes, audio_buffer, session,
                    received, now, deadline, entered_at, publishVars >>

\* line 162: the stop awaited after the loop returns or raises
StopDone ==
    /\ pc = "stop"
    /\ \E ok \in BOOLEAN :
        IF ok
        THEN pc' = "aexit" /\ result' = result
        ELSE Raise("stop")
    /\ UNCHANGED << argVars, taskVars, duration_seconds, target_bytes, audio_buffer, session,
                    sent, received, now, timerVars, publishVars >>

\* line 114: __aexit__ of the session closes it; a pending return value or
\* exception then leaves the function, otherwise line 164 is next
Aexit ==
    /\ pc = "aexit"
    /\ session' = "closed"
    /\ pc' = IF result = NoResult THEN "write_wav" ELSE "done"
    /\ UNCHANGED << argVars, taskVars, duration_seconds, target_bytes, audio_buffer, sent,
                    received, now, timerVars, publishVars, result >>

\* lines 164-172: truncate, pick the file name, write the WAV file
WriteWav ==
    /\ pc = "write_wav"
    /\ pcm_data' = Slice(audio_buffer, target_bytes)
    /\ \E name \in FileNames, ok \in BOOLEAN :
        /\ filename' = name
        /\ IF ok
           THEN /\ files' = [files EXCEPT ![name] = WavFile(Slice(audio_buffer, target_bytes))]
                /\ pc' = "upload"
                /\ result' = result
           ELSE /\ files' = files
                /\ pc' = "done"
                /\ result' = Raised("_write_wav")
    /\ UNCHANGED << argVars, taskVars, duration_seconds, target_bytes, audio_buffer, session,
                    sent, received, now, timerVars, bucket_exists, objects,
                    put_calls, uploaded >>

\* an object name that does not depend on the file
ObjectName_Fixed(path) == "music_0a.wav"

\* line 66: object_name = filepath.name
ObjectName(path) == path

\* the calls of lines 174-176 that may raise
UploadFaults == {"none", "bucket_exists", "make_bucket", "put_object", "unlink"}

\* lines 55-80 and 174-192: _upload_to_minio, unlink, and the two reports
Upload ==
    /\ pc = "upload"
    /\ \E fault \in UploadFaults, exists \in BOOLEAN :
        LET checked == fault # "bucket_exists"
            made == checked /\ ~(~exists /\ fault = "make_bucket")
            staged == made /\ files[filename] # Absent    \* stat and open
            put == staged /\ fault # "put_object"
            unlinked == put /\ fault # "unlink"
            nbytes == ByteLen(pcm_data)
        IN /\ bucket_exists => exists
           /\ (fault = "make_bucket") => ~exists
           /\ bucket_exists' = (bucket_exists \/ made)
           /\ put_calls' = IF staged THEN put_calls + 1 ELSE put_calls
           /\ objects' = IF put
                         THEN [objects EXCEPT ![ObjectName(filename)] = files[filename]]
                         ELSE objects
           /\ uploaded' = put
           /\ files' = IF unlinked THEN [files EXCEPT ![filename] = Absent] ELSE files
           /\ result' = IF unlinked THEN DownloadText(Url(ObjectName(filename)), nbytes)
                        ELSE SavedText(filename, nbytes)
    /\ pc' = "done"
    /\ UNCHANGED << argVars, taskVars, duration_seconds, target_bytes, audio_buffer, session,
                    sent, received, now, timerVars, pcm_data, filename >>

\* the wall clock advances; an armed deadline fires before time moves past
\* it.  Only the order of the events and of the deadline matters to the
\* coroutine, so the seconds far from the deadline pass in one step.
Tick ==
    /\ \/ /\ pc \in {"connect", "set_weighted_prompts", "set_music_generation_config", "play"}
          /\ now < MaxStartDelay
          /\ now' = now + 1
       \/ /\ pc \in {"receive", "stop_filtered"}
          /\ now < deadline
          /\ now' = IF deadline - now > NearDeadline THEN deadline - NearDeadline
                    ELSE now + 1
    /\ UNCHANGED << argVars, taskVars, pc, duration_seconds, target_bytes, audio_buffer, session,
                    sent, received, timerVars, publishVars, result >>

Next ==
    \/ Begin
    \/ Connect
    \/ SetWeightedPrompts
    \/ SetMusicGenerationConfig
    \/ Play
    \/ Receive
    \/ EndOfStream
    \/ ReceiveFails
    \/ StopFilteredDone
    \/ OnTimeout
    \/ StopDone
    \/ Aexit
    \/ WriteWav
    \/ Upload
    \/ Tick

Spec == Init /\ [][Next]_vars

SpecConfig == InitConfig /\ [][Next]_vars

\* the locals of the running request
Locals ==
    [arg_duration |-> arg_duration, arg_bpm |-> arg_bpm,
     arg_temperature |-> arg_temperature, pc |-> pc,
     duration_seconds |-> duration_seconds, target_bytes |-> target_bytes,
     audio_buffer |-> audio_buffer, session |-> session, sent |-> sent,
     received |-> received, timeout_state |-> timeout_state,
     deadline |-> deadline, entered_at |-> entered_at, pcm_data |-> pcm_data,
     filename |-> filename, uploaded |-> uploaded, result |-> result]

\* a request that was called and has not run yet
NewTask(d, b, t) ==
    [arg_duration |-> d, arg_bpm |-> b, arg_temperature |-> t, pc |-> "idle",
     duration_seconds |-> 0, target_bytes |-> 0, audio_buffer |-> <<>>,
     session |-> "none", sent |-> <<>>, received |-> <<>>,
     timeout_state |-> "created", deadline |-> 0, entered_at |-> 0,
     pcm_data |-> <<>>, filename |-> "", uploaded |-> FALSE, result |-> NoResult]

\* The event loop resumes the other task.  A task gives up the processor at
\* an await only: lines 164-192 run without one, so there is no switch
\* between __aexit__ and the return; a task that returned is not resumed.
Switch ==
    /\ peer.pc \notin {"absent", "done"}
    /\ pc \notin {"write_wav", "upload"}
    /\ peer' = Locals
    /\ running' = 3 - running
    /\ arg_duration' = peer.arg_duration
    /\ arg_bpm' = peer.arg_bpm
    /\ arg_temperature' = peer.arg_temperature
    /\ pc' = peer.pc
    /\ duration_seconds' = peer.duration_seconds
    /\ target_bytes' = peer.target_bytes
    /\ audio_buffer' = peer.audio_buffer
    /\ session' = peer.session
    /\ sent' = peer.sent
    /\ received' = peer.received
    /\ timeout_state' = peer.timeout_state
    /\ deadline' = peer.deadline
    /\ entered_at' = peer.entered_at
    /\ pcm_data' = peer.pcm_data
    /\ filename' = peer.filename
    /\ uploaded' = peer.uploaded
    /\ result' = peer.result
    /\ UNCHANGED << now, files, bucket_exists, objects, put_calls >>

\* two requests in one event loop, with different durations and tempos
InitConcurrent ==
    /\ InitRequest({0}, {None}, {10})
    /\ peer = NewTask(2, <<30>>, 10)

\* the messages the two sessions deliver when two requests run
ConcurrentMessages ==
    { [filtered_prompt |-> TRUE, audio_chunks |-> <<>>],
      [filtered_prompt |-> FALSE,
       audio_chunks |-> << [enc |-> "bytes", len |-> 3, pad |-> 0] >>],
      [filtered_prompt |-> FALSE,
       audio_chunks |-> << [enc |-> "str", len |-> 256000, pad |-> 0] >>] }

ConcurrentStream ==
    \A i \in 1..Len(received) : received[i] \in ConcurrentMessages

NextConcurrent ==
    \/ Next /\ ConcurrentStream'
    \/ Switch

SpecConcurrent == InitConcurrent /\ [][NextConcurrent]_vars

\* The event loop runs the coroutine whenever it is runnable, the clock
\* advances and an expired deadline fires.  Nothing obliges the backend to
\* send a message or to complete a stop: Receive, EndOfStream, ReceiveFails,
\* StopFilteredDone and StopDone carry no fairness.
FairSpec ==
    /\ Spec
    /\ WF_vars(Begin) /\ WF_vars(Connect) /\ WF_vars(SetWeightedPrompts)
    /\ WF_vars(SetMusicGenerationConfig) /\ WF_vars(Play)
    /\ WF_vars(Tick) /\ WF_vars(OnTimeout)
    /\ WF_vars(Aexit) /\ WF_vars(WriteWav) /\ WF_vars(Upload)

\* ------------------------------------------------------------ properties
NoFiles == \A n \in FileNames : files[n] = Absent
NoObjects == \A n \in FileNames : objects[n] = Absent
NothingProduced == NoFiles /\ NoObjects /\ put_calls = 0 /\ pcm_data = <<>>

ModerationReceived ==
    \E i \in 1..Len(received) : received[i].filtered_prompt

Returned == pc = "done" /\ result.kind \notin {"none", "exception"}

\* C1: once a moderation event was consumed, whatever was buffered before it,
\* the request ends with the moderation-rejection result, nothing is encoded
\* and no file is written or published.
C1_ModerationDiscardsBuffer ==
    ModerationReceived =>
        /\ NothingProduced
        /\ pc \notin {"write_wav", "upload"}
        /\ Returned => result = FILTERED_MSG

StopIssued == \E i \in 1..Len(sent) : sent[i] = StopSignal

\* C2: a request that entered the streaming phase reports a result only after
\* a session stop was issued.
C2_StopBeforeResult ==
    (timeout_state # "created" /\ result.kind \notin {"none", "exception"}) =>
        StopIssued

\* C2, amended: a result other than the no-audio message is reported only
\* after a session stop was issued, and every result is reported only after
\* the session was closed.
C2_StopOrCloseBeforeResult ==
    (timeout_state # "created" /\ result.kind \notin {"none", "exception"}) =>
        /\ result # EMPTY_MSG => StopIssued
        /\ pc = "done" => session = "closed"

C2_Witness ==
    /\ pc = "done"
    /\ result = EMPTY_MSG
    /\ received # <<>>
    /\ ~StopIssued
    /\ session = "closed"

\* C3: when the deadline expires on an empty buffer the request ends with the
\* no-audio message, which differs from the moderation message, and nothing is
\* encoded, written or published.
C3_EmptyTimeout ==
    (timeout_state = "expired" /\ ByteLen(audio_buffer) = 0) =>
        /\ pc \in {"aexit", "done"}
        /\ result = EMPTY_MSG
        /\ result # FILTERED_MSG
        /\ NothingProduced

C3_Witness ==
    /\ pc = "done"
    /\ timeout_state = "expired"
    /\ audio_buffer = <<>>
    /\ result = EMPTY_MSG

\* C4: when the deadline expires on a non-empty buffer under the target the
\* request is not reported as an error; what is encoded is the whole buffer,
\* so the payload length is the buffered byte count, and the reported duration
\* is derived from that count.
C4_PartialTimeout ==
    (timeout_state = "expired" /\ ByteLen(audio_buffer) > 0
        /\ ByteLen(audio_buffer) < target_bytes) =>
        /\ result \notin {EMPTY_MSG, FILTERED_MSG}
        /\ pc \in {"stop", "aexit", "write_wav", "upload", "done"}
        /\ pc = "upload" =>
            /\ files[filename] = WavFile(audio_buffer)
            /\ ByteLen(files[filename].frames) = ByteLen(audio_buffer)
        /\ Returned =>
            /\ result.kind \in {"download", "saved"}
            /\ ByteLen(pcm_data) = ByteLen(audio_buffer)
            /\ result.duration = RoundHalfEven(10 * ByteLen(audio_buffer), 192000)
            /\ uploaded => ByteLen(objects[filename].frames) = ByteLen(audio_buffer)

C4_Witness ==
    /\ pc = "done"
    /\ timeout_state = "expired"
    /\ ByteLen(audio_buffer) > 0
    /\ ByteLen(audio_buffer) < target_bytes
    /\ result.kind = "download"
    /\ ByteLen(objects[filename].frames) = ByteLen(audio_buffer)

AtTarget == pc # "idle" /\ ByteLen(audio_buffer) >= target_bytes

\* the bytes that were in the buffer when its k-th segment was appended
BytesBefore(k) == ByteLen(SubSeq(audio_buffer, 1, k - 1))

\* C5: no audio frame is appended to a buffer that is already at or over the
\* target.
C5_NoAppendAtTarget ==
    pc # "idle" =>
        \A k \in 1..Len(audio_buffer) : BytesBefore(k) < target_bytes

\* C5, amended: the step in which the chunks of one message bring the buffer
\* to or over the target leaves the receive loop and issues the stop in that
\* same step, whatever the backend does next; from then on no message is
\* consumed and the buffer is never appended to again; a chunk appended to a
\* buffer already at the target belongs to the last message consumed.
C5_StopAtTarget ==
    /\ [](pc # "idle" =>
            \A k \in 1..Len(audio_buffer) :
                BytesBefore(k) >= target_bytes =>
                    audio_buffer[k].msg = Len(received))
    /\ [](AtTarget =>
            /\ pc \notin {"receive", "stop_filtered"}
            /\ sent # <<>> /\ sent[Len(sent)] = StopSignal)
    /\ [][ /\ (~AtTarget /\ AtTarget') =>
                (pc = "receive" /\ pc' = "stop" /\ sent' = Append(sent, StopSignal))
           /\ AtTarget => (audio_buffer' = audio_buffer /\ received' = received) ]_vars

C5_Witness ==
    /\ pc = "done"
    /\ ByteLen(audio_buffer) > target_bytes
    /\ BytesBefore(Len(audio_buffer)) >= target_bytes
    /\ Len(received) < MaxMessages
    /\ result.kind = "download"

\* C6: the countdown is armed once, on entry to the streaming phase, at the
\* clamped duration plus 5 seconds after the entry; no message moves it; the
\* coroutine is never suspended in the streaming phase later than that.
C6_OverallDeadline ==
    LET clamped == IF arg_duration < 1 THEN 1
                   ELSE IF arg_duration > 120 THEN 120 ELSE arg_duration
    IN /\ pc \in {"receive", "stop_filtered"} =>
            /\ timeout_state = "entered"
            /\ now <= entered_at + clamped + 5
       /\ timeout_state # "created" => deadline = entered_at + clamped + 5
       /\ timeout_state = "expired" =>
            /\ now = entered_at + clamped + 5
            /\ pc \notin {"receive", "stop_filtered"}

C6_Witness ==
    /\ timeout_state = "expired"
    /\ entered_at > 0
    /\ Len(audio_buffer) >= 2
    /\ pc = "stop"

\* C7: a request whose deadline expired always terminates, also when the
\* backend never completes the stop.
C7_Terminates == (timeout_state = "expired") ~> (pc = "done")

NegotiationOrEncoding ==
    {"connect", "set_weighted_prompts", "set_music_generation_config", "play",
     "_write_wav"}

\* C8: an exception leaves music.generate only from negotiation or from
\* encoding; every other outcome is a returned text.
C8_OnlyNegotiationOrEncodingRaise ==
    result.kind = "exception" => result.at \in NegotiationOrEncoding

\* C9: a request that reaches publishing returns exactly one of two results:
\* the remote locator, with the staged file deleted, when the object was
\* stored; the local path with the degradation warning, the staged file kept
\* and put_object called at most once, when the publish path failed.
C9_PublishResult ==
    (pc = "done" /\ filename # "" /\ result # Raised("_write_wav")) =>
        /\ result.kind \in {"download", "saved"}
        /\ put_calls <= 1
        /\ IF uploaded
           THEN /\ result.kind = "download"
                /\ result.url.object = filename
                /\ files[filename] = Absent
           ELSE /\ result.kind = "saved"
                /\ result.path = filename
                /\ result.warning = UPLOAD_WARNING
                /\ files[filename] # Absent

\* C10: from the moment the request starts, and before the session is opened,
\* the target is the duration clamped to 1..120 times 192000 bytes; it never
\* changes afterwards, and the deadline is armed with that same clamped
\* duration.
C10_TargetFromClampedDuration ==
    LET clamped == IF arg_duration < 1 THEN 1
                   ELSE IF arg_duration > 120 THEN 120 ELSE arg_duration
    IN /\ pc \in {"idle", "connect"} => session = "none"
       /\ pc # "idle" =>
            /\ duration_seconds = clamped
            /\ target_bytes = clamped * (48000 * 2 * 2)
       /\ timeout_state # "created" => deadline - entered_at = duration_seconds + 5

C10_Witness ==
    /\ pc = "stop"
    /\ timeout_state = "expired"
    /\ arg_duration = 121
    /\ target_bytes = 23040000
    /\ audio_buffer # <<>>

\* C11: the configuration sent carries the caller's variability in every
\* case; it carries a tempo exactly when the caller supplied one, and that
\* tempo is the supplied one clamped to 60..200.
C11_ConfigSent ==
    \A i \in 1..Len(sent) :
        sent[i].op = "set_music_generation_config" =>
            LET config == sent[i].config
            IN /\ config.temperature = arg_temperature
               /\ IF arg_bpm = <<>>
                  THEN DOMAIN config = {"temperature"}
                  ELSE /\ DOMAIN config = {"temperature", "bpm"}
                       /\ config.bpm = IF arg_bpm[1] < 60 THEN 60
                                       ELSE IF arg_bpm[1] > 200 THEN 200
                                       ELSE arg_bpm[1]

C11_Witness ==
    /\ pc = "receive"
    /\ arg_bpm = <<30>>
    /\ Len(sent) = 3
    /\ sent[2].op = "set_music_generation_config"
    /\ sent[2].config.bpm = 60

\* C12: truncating to the target leaves a buffer at or under the target
\* unchanged, and truncating what was already truncated changes nothing.
C12_TruncateIdempotent ==
    pc # "idle" =>
        LET truncated == Slice(audio_buffer, target_bytes)
        IN /\ ByteLen(audio_buffer) <= target_bytes => truncated = audio_buffer
           /\ Slice(truncated, target_bytes) = truncated
           /\ pc \in {"upload", "done"} => Slice(pcm_data, target_bytes) = pcm_data

C12_Witness ==
    /\ pc = "upload"
    /\ ByteLen(audio_buffer) > target_bytes
    /\ pcm_data # audio_buffer
    /\ ByteLen(pcm_data) = target_bytes
    /\ Slice(pcm_data, target_bytes) = pcm_data

\* what a reader of the container finds declared: rate, channels, bit depth
Declared(wav) ==
    [rate |-> wav.framerate, channels |-> wav.nchannels, bits |-> 8 * wav.sampwidth]

\* C13: every file written, whatever the length of its payload, declares
\* 48000 Hz, 2 channels and 16 bits, and the file just written holds the
\* bytes handed to the encoder, unaligned trailing bytes included.
C13_EncodeAsIs ==
    /\ \A n \in FileNames :
        /\ files[n] # Absent =>
             Declared(files[n]) = [rate |-> 48000, channels |-> 2, bits |-> 16]
        /\ objects[n] # Absent =>
             Declared(objects[n]) = [rate |-> 48000, channels |-> 2, bits |-> 16]
    /\ pc = "upload" =>
        /\ files[filename] # Absent
        /\ files[filename].frames = pcm_data
        /\ ByteLen(files[filename].frames) = ByteLen(pcm_data)

C13_Witness ==
    /\ pc = "upload"
    /\ ByteLen(pcm_data) % 4 # 0
    /\ files[filename].frames = pcm_data
    /\ Declared(files[filename]) = [rate |-> 48000, channels |-> 2, bits |-> 16]

\* the bytes of the audio chunks of the first k consumed messages, in the
\* order of their arrival
ChunkBytes(c) == IF c.enc = "str" THEN ((c.len \div 4) * 3) - c.pad ELSE c.len

RECURSIVE MessageFrames(_, _, _)
MessageFrames(m, chunks, j) ==
    IF j > Len(chunks) THEN <<>>
    ELSE (IF ChunkBytes(chunks[j]) = 0 THEN <<>>
          ELSE << [task |-> running, msg |-> m, chunk |-> j,
                   len |-> ChunkBytes(chunks[j])] >>)
         \o MessageFrames(m, chunks, j + 1)

RECURSIVE Arrived(_)
Arrived(k) ==
    IF k = 0 THEN <<>>
    ELSE Arrived(k - 1) \o MessageFrames(k, received[k].audio_chunks, 1)

\* p holds the first bytes of b
IsPrefix(p, b) ==
    /\ Len(p) <= Len(b)
    /\ \A k \in 1..Len(p) :
        /\ p[k].task = b[k].task
        /\ p[k].msg = b[k].msg
        /\ p[k].chunk = b[k].chunk
        /\ p[k].len > 0
        /\ IF k < Len(p) THEN p[k].len = b[k].len ELSE p[k].len <= b[k].len

\* C14: the buffer always is the concatenation, in arrival order, of the
\* audio frames consumed so far and only ever grows at its end; an encoded
\* payload is the prefix of that concatenation of length min(buffered bytes,
\* target bytes).
C14_BufferIsArrivalOrder ==
    /\ [](/\ audio_buffer = Arrived(Len(received))
          /\ pc = "upload" =>
               /\ files[filename].frames = pcm_data
               /\ IsPrefix(pcm_data, Arrived(Len(received)))
               /\ ByteLen(pcm_data) =
                    IF ByteLen(audio_buffer) <= target_bytes
                    THEN ByteLen(audio_buffer) ELSE target_bytes)
    /\ [][ /\ Len(audio_buffer') >= Len(audio_buffer)
           /\ SubSeq(audio_buffer', 1, Len(audio_buffer)) = audio_buffer ]_vars

C14_Witness ==
    /\ pc = "upload"
    /\ Len(audio_buffer) >= 3
    /\ audio_buffer[1].msg # audio_buffer[3].msg
    /\ ByteLen(audio_buffer) > target_bytes
    /\ pcm_data # audio_buffer
    /\ files[filename].frames = pcm_data

NegotiationOps == << "set_weighted_prompts", "set_music_generation_config", "play" >>

\* the calls made when the negotiation step named where has raised
SentWhenRaised(where) ==
    CASE where = "connect" -> 0
      [] where = "set_weighted_prompts" -> 1
      [] where = "set_music_generation_config" -> 2
      [] where = "play" -> 3

\* C15: the session is sent the prompt with weight 1, then the configuration,
\* then play, each once and in that order, and only stops after them; the
\* countdown is armed and messages are consumed only after all three; a
\* negotiation step that fails is the last call made, and the request ends
\* with nothing buffered, written or published.
C15_NegotiationOrder ==
    /\ \A i \in 1..Len(sent) :
        sent[i].op = IF i <= 3 THEN NegotiationOps[i] ELSE "stop"
    /\ sent # <<>> => sent[1].weight = 1
    /\ (timeout_state # "created" \/ received # <<>>) =>
        /\ Len(sent) >= 3
        /\ ~(result.kind = "exception"
             /\ result.at \in {"connect", "set_weighted_prompts",
                               "set_music_generation_config", "play"})
    /\ (result.kind = "exception"
        /\ result.at \in {"connect", "set_weighted_prompts",
                          "set_music_generation_config", "play"}) =>
        /\ Len(sent) = SentWhenRaised(result.at)
        /\ pc \in {"aexit", "done"}
        /\ timeout_state = "created"
        /\ received = <<>>
        /\ audio_buffer = <<>>
        /\ NothingProduced

C15_Witness ==
    /\ pc = "done"
    /\ result = Raised("set_music_generation_config")
    /\ Len(sent) = 2
    /\ session = "closed"
    /\ NothingProduced

\* C17: a file is written or published only for a buffer that holds at least
\* one byte; a request that ends with an empty buffer reports an error text
\* and has produced nothing.
C17_NoArtifactWithoutAudio ==
    ByteLen(audio_buffer) = 0 =>
        /\ pc \notin {"write_wav", "upload"}
        /\ NothingProduced
        /\ Returned => result.kind = "error"

\* C18: once the upload has returned the locator, the request returns the
\* remote locator result, whatever becomes of the local file.
C18_LocatorAfterUpload ==
    (pc = "done" /\ uploaded) =>
        /\ result.kind = "download"
        /\ result.url = Url(filename)

\* C19: while the coroutine is suspended inside the timeout block the buffer
\* is under the target, so a deadline that expires finds the buffer empty or
\* under the target.
C19_UnderTargetWhileStreaming ==
    /\ pc \in {"receive", "stop_filtered"} => ByteLen(audio_buffer) < target_bytes
    /\ timeout_state = "expired" => ByteLen(audio_buffer) < target_bytes

C19_Witness ==
    /\ timeout_state = "expired"
    /\ pc = "stop"
    /\ Len(received) = 2
    /\ ~received[1].filtered_prompt /\ ~received[2].filtered_prompt
    /\ ByteLen(audio_buffer) > 0
    /\ ByteLen(audio_buffer) < target_bytes

\* the bytes of the audio chunks that request id consumed, in arrival order
RECURSIVE FramesOf(_, _, _, _)
FramesOf(id, m, chunks, j) ==
    IF j > Len(chunks) THEN <<>>
    ELSE (IF ChunkBytes(chunks[j]) = 0 THEN <<>>
          ELSE << [task |-> id, msg |-> m, chunk |-> j,
                   len |-> ChunkBytes(chunks[j])] >>)
         \o FramesOf(id, m, chunks, j + 1)

RECURSIVE ArrivedAt(_, _, _)
ArrivedAt(id, messages, k) ==
    IF k = 0 THEN <<>>
    ELSE ArrivedAt(id, messages, k - 1) \o FramesOf(id, k, messages[k].audio_chunks, 1)

ClampedTo(d, lo, hi) == IF d < lo THEN lo ELSE IF d > hi THEN hi ELSE d

\* the locals of request id are what its own arguments and its own session
\* make them, and the artifact it reports holds its own bytes
OwnState(id, t, other) ==
    /\ t.audio_buffer = ArrivedAt(id, t.received, Len(t.received))
    /\ \A k \in 1..Len(t.pcm_data) : t.pcm_data[k].task = id
    /\ t.pc # "idle" =>
        t.target_bytes = ClampedTo(t.arg_duration, MIN_DURATION, MAX_DURATION) * BYTES_PER_SECOND
    /\ t.timeout_state # "created" =>
        t.deadline = t.entered_at + ClampedTo(t.arg_duration, MIN_DURATION, MAX_DURATION) + GRACE_SECONDS
    /\ \A i \in 1..Len(t.sent) :
        t.sent[i].op = "set_music_generation_config" =>
            /\ t.sent[i].config.temperature = t.arg_temperature
            /\ ("bpm" \in DOMAIN t.sent[i].config) = (t.arg_bpm # <<>>)
    /\ (t.pc = "done" /\ t.filename # other.filename) =>
        /\ t.result.kind = "download" =>
            /\ t.result.url.object = t.filename
            /\ objects[t.result.url.object] # Absent
            /\ objects[t.result.url.object].frames = t.pcm_data
        /\ t.result.kind = "saved" =>
            /\ t.result.path = t.filename
            /\ files[t.result.path] # Absent
            /\ files[t.result.path].frames = t.pcm_data

\* C16: with two requests interleaved at their awaits and distinct file
\* names, each request's buffer, target, deadline and session traffic are
\* those of its own arguments and its own stream, a step of one request
\* leaves the suspended one as it was, and the artifact each request reports
\* holds bytes of its own frames only.
C16_RequestsIsolated ==
    /\ [](peer.pc # "absent" =>
            /\ OwnState(running, Locals, peer)
            /\ OwnState(3 - running, peer, Locals))
    /\ [][running' = running => peer' = peer]_vars

C16_Witness ==
    /\ running = 1
    /\ pc = "done" /\ peer.pc = "done"
    /\ filename # peer.filename
    /\ result.kind = "download" /\ peer.result.kind = "download"
    /\ audio_buffer # <<>> /\ peer.audio_buffer # <<>>
    /\ objects[filename].frames = pcm_data
    /\ objects[peer.filename].frames = peer.pcm_data
    /\ pcm_data[1].task # peer.pcm_data[1].task

====
